---- MODULE Spec2Model ----
(***************************************************************************)
(* Altitude orchestration runner of garage-mcp:                            *)
(*   services/mcp/modules/orchestra_runner.py  (OrchestrationRunner)       *)
(*   services/mcp/modules/orchestra.py         (orchestra_invoke)          *)
(*   services/mcp/modules/error_sink.py        (build_error_record)        *)
(*                                                                         *)
(* One module-level OrchestrationRunner object serves every call of        *)
(* run_altitude_plan.  Each call is a coroutine; it runs without           *)
(* interruption between two suspension points (the delegate's              *)
(* asyncio.sleep and the retry backoff sleep).  Python dicts and lists are *)
(* objects: the HDO's log, meta and payload are modelled as heap cells so  *)
(* that hdo.copy() is the shallow copy it is.                              *)
(***************************************************************************)
EXTENDS Integers, Sequences, FiniteSets, TLC

\* ------------------------------------------------------------------ bounds
MaxSteps == 2        \* longest plan
MaxRetries == 2      \* largest retry_policy.max_retries
MaxPrior == 1        \* longest log the caller hands in
MaxConcSteps == 1    \* longest plan of two concurrent invocations
MaxSinkLog == 11     \* longest log of an HDO handed to build_error_record

Inv == {1, 2}        \* invocations of run_altitude_plan

Absent == "<absent>" \* a key the dict does not hold, or None

\* ------------------------------------------------------- strings and tests
\* Python's `kw in s.lower()` on the strings that occur in the model.
KeywordsIn(s) ==
    CASE s = "input-mapper"             -> {"input", "mapper"}
      [] s = "input-validator"          -> {"input", "validator"}
      [] s = "overall-orchestrator"     -> {"orchestrator"}
      [] s = "middle-subagent-enforcer" -> {"middle", "enforcer"}
      [] s = "timeout-notifier"         -> {"timeout", "notifier"}
      [] s = "timeout after 30s"        -> {"timeout"}
      [] s = "connection reset"         -> {}
      [] s = "Database Connection lost"               -> {"database connection"}
      [] s = "database connection lost after timeout" -> {"database connection", "timeout"}
      [] s = "Disk Full; validation failed"           -> {"disk full", "validation failed"}
      [] s = "permission denied"                      -> {"permission denied"}
      [] s = "out of memory"                          -> {"out of memory"}
      [] s = "authentication failed"                  -> {"authentication failed"}
      [] s = "request TIMEOUT"                        -> {"timeout"}
      [] s = "Network Error"                          -> {"network error"}
      [] s = "service unavailable"                    -> {"service unavailable"}
      [] s = "invalid data in row 3"                  -> {"invalid data"}
      [] s = "time out"                               -> {}
      [] s = "database offline"                       -> {}
      [] s = "unexpected state"                       -> {}
      [] OTHER                          -> {}

\* An exception: its type and the pieces its message is formatted from.
Exc(type, parts, eid) == [type |-> type, parts |-> parts, error_id |-> eid]

NoExc == Exc(Absent, <<>>, 0)

\* 'timeout' in str(error).lower()
MsgContains(e, kw) == \E k \in 1..Len(e.parts) : kw \in KeywordsIn(e.parts[k])

\* ------------------------------------------------------------- identifiers
\* A process_id, split at the places the pattern looks at:
\* ^PROC-[a-z0-9_]+-\d{8}-\d{6}-\d{3,6}$
Pid(prefix, slug, d, t, s) ==
    [prefix |-> prefix, slug |-> slug, date |-> d, time |-> t, seq |-> s]

LowerSlugs == {"demo", "acme_01"}

GoodPid == Pid("PROC", "demo", 8, 6, 3)
ShortSeqPid == Pid("PROC", "demo", 8, 6, 2)
UpperSlugPid == Pid("PROC", "Demo", 8, 6, 3)
EmptyPid == Pid("", "", 0, 0, 0)

MatchesProcPattern(p) ==
    /\ p.prefix = "PROC"
    /\ p.slug \in LowerSlugs
    /\ p.date = 8
    /\ p.time = 6
    /\ p.seq >= 3 /\ p.seq <= 6

\* meta.idempotency_key: absent, or a prefix followed by a process id
Idem(present, prefix, pid) == [present |-> present, prefix |-> prefix, pid |-> pid]

NoIdem == Idem(FALSE, "", EmptyPid)

\* _validate_heir_ids: the ValueError it raises, or NoExc
ValidateHeirIds(process_id, idem) ==
    IF ~MatchesProcPattern(process_id)
    THEN Exc("ValueError", <<"Invalid process_id format: ", process_id.slug>>, 0)
    ELSE IF idem.present
    THEN IF ~(idem.prefix = "IDEM" /\ MatchesProcPattern(idem.pid))
         THEN Exc("ValueError", <<"Invalid idempotency_key format: ", idem.pid.slug>>, 0)
         ELSE IF idem.pid # process_id
         THEN Exc("ValueError", <<"idempotency_key ", idem.pid.slug,
                                  " does not match process_id ", process_id.slug>>, 0)
         ELSE NoExc
    ELSE NoExc

\* ------------------------------------------------------------ dictionaries
\* A Python dict is a function whose domain is the set of keys it holds.
Has(d, k) == k \in DOMAIN d

Put(d, k, v) == [x \in DOMAIN d \cup {k} |-> IF x = k THEN v ELSE d[x]]

\* variant: the dict is replaced by the other one
UpdateReplace(d, other) == other

\* dict.update(other): keys of other replace or extend, the rest are kept
Update(d, other) ==
    [x \in DOMAIN d \cup DOMAIN other |-> IF x \in DOMAIN other THEN other[x] ELSE d[x]]

EmptyDict == [x \in {} |-> Absent]

\* -------------------------------------------------------------------- plans
When(condition, depends_on, expression) ==
    [condition |-> condition, depends_on |-> depends_on, expression |-> expression]

NoWhen == When(Absent, {}, Absent)

Retry(max_retries, retry_on) == [max_retries |-> max_retries, retry_on |-> retry_on]

NoRetry == Retry(0, {})

Step(step_id, agent_id, when, retry_policy) ==
    [step_id |-> step_id, agent_id |-> agent_id, action |-> "run",
     when |-> when, retry_policy |-> retry_policy]

StepIds == <<"s1", "s2", "s3", "s4">>

PromotionExpr == "enforcer.promotion_decision == true"

GuardedPromotionExpr == "ready and enforcer.promotion_decision == true"

\* ---------------------------------------------------------------- log entries
Entry(agent_id, action, status, step_id, plan_id, error, skip_reason, promo) ==
    [agent_id |-> agent_id, action |-> action, status |-> status,
     step_id |-> step_id, plan_id |-> plan_id,
     error_message |-> error.parts, error_type |-> error.type,
     skip_reason |-> skip_reason, promotion_decision |-> promo]

StepEntry(step, status, error, reason) ==
    Entry(step.agent_id, step.action, status, step.step_id, Absent, error, reason, Absent)

\* _record_step_start / _record_step_completion / _record_step_failure /
\* _record_step_skipped: the entry each appends to current_hdo['log']
\* variant: the 'started' entry is not written
RecordStepStartOmitted(log, step) == log

\* variant: a retry does not write a 'started' entry of its own
RecordStepStartOnce(log, step) ==
    IF \E k \in 1..Len(log) :
          log[k].step_id = step.step_id /\ log[k].status = "started"
    THEN log
    ELSE Append(log, StepEntry(step, "started", NoExc, Absent))

RecordStepStart(log, step) == Append(log, StepEntry(step, "started", NoExc, Absent))

\* variant: the step's 'started' entry is rewritten into the 'completed' one
RecordStepCompletionInPlace(log, step) ==
    [log EXCEPT ![Len(log)] = StepEntry(step, "completed", NoExc, Absent)]

RecordStepCompletion(log, step) ==
    Append(log, StepEntry(step, "completed", NoExc, Absent))

RecordStepFailure(log, step, error) ==
    Append(log, StepEntry(step, "failed", error, Absent))

RecordStepSkipped(log, step) ==
    Append(log, StepEntry(step, "skipped", NoExc, "condition_not_met"))

StartEntry(plan) ==
    Entry("orchestra-runner", "start_orchestration", "started", Absent,
          plan.plan_id, NoExc, Absent, Absent)

CompleteEntry(plan) ==
    Entry("orchestra-runner", "complete_orchestration", "completed", Absent,
          plan.plan_id, NoExc, Absent, Absent)

\* ------------------------------------------------------- step conditions
\* variant: the first entry of a step_id decides, later ones are ignored
RECURSIVE CompletedStepsFirstWins(_, _)
CompletedStepsFirstWins(log, n) ==
    IF n = 0 THEN EmptyDict
    ELSE LET d == CompletedStepsFirstWins(log, n - 1)
             e == log[n]
         IN  IF /\ e.step_id # Absent /\ e.status \in {"completed", "failed"}
                /\ ~Has(d, e.step_id)
             THEN Put(d, e.step_id, e.status)
             ELSE d

\* the dict comprehension of _all_dependencies_successful and
\* _any_dependencies_failed: later entries of a step_id overwrite earlier ones
RECURSIVE CompletedSteps(_, _)
CompletedSteps(log, n) ==
    IF n = 0 THEN EmptyDict
    ELSE LET d == CompletedSteps(log, n - 1)
             e == log[n]
         IN  IF e.step_id # Absent /\ e.status \in {"completed", "failed"}
             THEN Put(d, e.step_id, e.status)
             ELSE d

\* variant: a dependency counts once it has any terminal entry
AllDependenciesTerminal(step_ids, log) ==
    IF step_ids = {} THEN TRUE
    ELSE LET completed_steps == CompletedSteps(log, Len(log))
         IN  \A sid \in step_ids : Has(completed_steps, sid)

AllDependenciesSuccessful(step_ids, log) ==
    IF step_ids = {} THEN TRUE
    ELSE LET completed_steps == CompletedSteps(log, Len(log))
         IN  \A sid \in step_ids :
                Has(completed_steps, sid) /\ completed_steps[sid] = "completed"

\* variant: a dependency counts as failed once it has any 'failed' entry
AnyDependenciesEverFailed(step_ids, log) ==
    \E sid \in step_ids :
        \E k \in 1..Len(log) : log[k].step_id = sid /\ log[k].status = "failed"

AnyDependenciesFailed(step_ids, log) ==
    IF step_ids = {} THEN FALSE
    ELSE LET completed_steps == CompletedSteps(log, Len(log))
         IN  \E sid \in step_ids :
                Has(completed_steps, sid) /\ completed_steps[sid] = "failed"

\* _check_promotion_decision: the newest completed enforcer entry that
\* carries a promotion_decision decides
RECURSIVE CheckPromotionDecision(_, _)
CheckPromotionDecision(log, n) ==
    IF n = 0 THEN FALSE
    ELSE LET e == log[n]
         IN  IF /\ e.agent_id = "middle-subagent-enforcer"
                /\ e.status = "completed"
                /\ e.promotion_decision # Absent
             THEN e.promotion_decision = "True"
             ELSE CheckPromotionDecision(log, n - 1)

\* 'enforcer.promotion_decision == true' in expression, on the expressions
\* that occur in the model
MentionsPromotion(expression) == expression \in {PromotionExpr, GuardedPromotionExpr}

\* variant: an expression that is not recognised evaluates to false
EvaluateConditionExpressionStrict(expression, log) ==
    IF expression = "true" THEN TRUE
    ELSE IF expression = "false" THEN FALSE
    ELSE IF MentionsPromotion(expression) THEN CheckPromotionDecision(log, Len(log))
    ELSE FALSE

EvaluateConditionExpression(expression, log) ==
    IF expression = "true" THEN TRUE
    ELSE IF expression = "false" THEN FALSE
    ELSE IF MentionsPromotion(expression) THEN CheckPromotionDecision(log, Len(log))
    ELSE TRUE

ShouldExecuteStep(step, log) ==
    LET condition == IF step.when.condition = Absent THEN "always"
                     ELSE step.when.condition
        expression == IF step.when.expression = Absent THEN "true"
                      ELSE step.when.expression
    IN  CASE condition = "always"      -> TRUE
          [] condition = "on_success"  -> AllDependenciesSuccessful(step.when.depends_on, log)
          [] condition = "on_failure"  -> AnyDependenciesFailed(step.when.depends_on, log)
          [] condition = "conditional" -> EvaluateConditionExpression(expression, log)
          [] OTHER                     -> FALSE

\* ------------------------------------------------------------------ retries
\* variant: only a count above max_retries ends the retries
GetStepRetryCountLessOne(step_id, log) ==
    Cardinality({k \in 1..Len(log) :
                    log[k].step_id = step_id /\ log[k].status = "failed"}) - 1

\* variant: only the failures since the newest start_orchestration entry count
GetStepRetryCountThisRun(step_id, log) ==
    LET starts == {k \in 1..Len(log) : log[k].action = "start_orchestration"}
        from == IF starts = {} THEN 0 ELSE CHOOSE k \in starts : \A j \in starts : j <= k
    IN  Cardinality({k \in (from + 1)..Len(log) :
                        log[k].step_id = step_id /\ log[k].status = "failed"})

\* _get_step_retry_count: the 'failed' entries of the step in the whole log
GetStepRetryCount(step_id, log) ==
    Cardinality({k \in 1..Len(log) :
                    log[k].step_id = step_id /\ log[k].status = "failed"})

ShouldRetryStep(step, error, log) ==
    LET max_retries == step.retry_policy.max_retries
        retry_on == step.retry_policy.retry_on
    IN  IF max_retries <= 0 THEN FALSE
        ELSE IF GetStepRetryCount(step.step_id, log) >= max_retries THEN FALSE
        ELSE IF MsgContains(error, "timeout") /\ "timeout" \in retry_on THEN TRUE
        ELSE IF "agent_failure" \in retry_on THEN TRUE
        ELSE FALSE

\* -------------------------------------------------------- agent delegate
\* _get_target_stage
GetTargetStage(agent_id) ==
    IF "input" \in KeywordsIn(agent_id) THEN "input"
    ELSE IF "middle" \in KeywordsIn(agent_id) THEN "middle"
    ELSE IF "output" \in KeywordsIn(agent_id) THEN "output"
    ELSE "input"

\* _delegate_to_agent and the _simulate_* behaviours: result['hdo_updates']
HdoUpdatesOf(agent_id) ==
    LET kw == KeywordsIn(agent_id)
    IN  IF "orchestrator" \in kw
        THEN [stage |-> GetTargetStage(agent_id), validated |-> FALSE]
        ELSE IF "mapper" \in kw
        THEN [payload |-> [mapped_data |-> "normalized", mapping_metadata |-> "v1"]]
        ELSE IF "validator" \in kw
        THEN [validated |-> TRUE, payload |-> [validation_results |-> "passed"]]
        ELSE IF "enforcer" \in kw
        THEN [promoted_to |-> "output", payload |-> [enforcement_result |-> "approved"]]
        ELSE IF "notifier" \in kw
        THEN [payload |-> [notifications |-> "sent"]]
        ELSE [payload |-> [generic_result |-> "done"]]

\* result['promotion_decision'] of the delegate: only _simulate_enforcer sets it
PromotionDecisionOf(agent_id) ==
    LET kw == KeywordsIn(agent_id)
    IN  IF kw \cap {"orchestrator", "mapper", "validator"} = {} /\ "enforcer" \in kw
        THEN "True"
        ELSE Absent

\* hdo_updates an agent other than the simulated ones may return: any of
\* payload, meta, stage, validated, promoted_to
ExternalUpdates ==
    { [payload |-> [mapped_data |-> "fresh"]],
      [payload |-> [report |-> "r1"], meta |-> [plan_hash |-> "h2"]],
      [meta |-> [plan_hash |-> "h3", reviewer |-> "ops"], stage |-> "middle"],
      [validated |-> TRUE, promoted_to |-> "output"] }

\* exceptions a delegate may raise while it is awaited
DelegateErrors ==
    { Exc("Exception", <<"timeout after 30s">>, 0),
      Exc("Exception", <<"connection reset">>, 0) }

\* ------------------------------------------------------------ HDO updates
\* _apply_hdo_updates on the top-level dict: stage, validated, promoted_to
ApplyTopUpdates(h, updates) ==
    LET h1 == IF Has(updates, "stage") THEN Put(h, "stage", updates.stage) ELSE h
        h2 == IF Has(updates, "validated") THEN Put(h1, "validated", updates.validated) ELSE h1
    IN  IF Has(updates, "promoted_to") THEN Put(h2, "promoted_to", updates.promoted_to) ELSE h2

\* _apply_hdo_updates reads self.current_hdo['payload'] / ['meta'] first:
\* a KeyError when the HDO has no such key
ApplyUpdatesError(h, updates) ==
    IF Has(updates, "payload") /\ ~Has(h, "payload")
    THEN Exc("KeyError", <<"payload">>, 0)
    ELSE IF Has(updates, "meta") /\ ~Has(h, "meta")
    THEN Exc("KeyError", <<"meta">>, 0)
    ELSE NoExc

\* variant: validated is left as the steps set it
CompleteTopStageOnly(h) == Put(h, "stage", "output")

\* _complete_hdo_execution on the top-level dict
CompleteTop(h) == Put(Put(h, "stage", "output"), "validated", TRUE)

\* ------------------------------------------------------------ error records
\* build_error_record: error_id is a fresh uuid4
BuildErrorRecord(eid, layer, i, h, agent_id, error) ==
    [error_id |-> eid, layer |-> layer, inv |-> i,
     process_id |-> IF Has(h, "process_id") THEN h.process_id ELSE EmptyPid,
     agent_id |-> agent_id, message |-> error.parts, error_type |-> error.type]

NewErrorContext ==
    [last_error_id |-> 0, error_count |-> 0, retry_count |-> 0, max_retries |-> 3]

\* variant: the error is counted but its id is not stored
RecordHdoErrorCountOnly(meta, eid) ==
    LET m == IF Has(meta, "error_context") THEN meta
             ELSE Put(meta, "error_context", NewErrorContext)
    IN  Put(m, "error_context", [m.error_context EXCEPT !.error_count = @ + 1])

\* _record_hdo_error on the meta dict
RecordHdoError(meta, eid) ==
    LET m == IF Has(meta, "error_context") THEN meta
             ELSE Put(meta, "error_context", NewErrorContext)
    IN  Put(m, "error_context",
            [m.error_context EXCEPT !.last_error_id = eid,
                                    !.error_count = @ + 1])

\* _determine_error_severity: keywords looked for in str(err).lower()
CriticalKeywords ==
    {"database connection", "authentication failed", "permission denied",
     "out of memory", "disk full"}

HighKeywords ==
    {"timeout", "network error", "service unavailable", "invalid data",
     "validation failed"}

\* variant: the exception type is looked at before the message
DetermineErrorSeverityTypeFirst(e) ==
    IF e.type \in {"ValueError", "KeyError", "AttributeError"} THEN "medium"
    ELSE IF e.type \in {"Warning", "UserWarning"} THEN "low"
    ELSE IF \E kw \in CriticalKeywords : MsgContains(e, kw) THEN "critical"
    ELSE "high"

DetermineErrorSeverity(e) ==
    IF \E kw \in CriticalKeywords : MsgContains(e, kw) THEN "critical"
    ELSE IF \E kw \in HighKeywords : MsgContains(e, kw) THEN "high"
    ELSE IF e.type \in {"ValueError", "KeyError", "AttributeError"} THEN "medium"
    ELSE IF e.type \in {"Warning", "UserWarning"} THEN "low"
    ELSE "high"

\* _create_hdo_snapshot, on an HDO given with its nested objects: a dict whose
\* 'meta' is a dict, whose 'log' is a list and whose 'payload' is the list
\* of its (key, value) items in insertion order
SafeTopKeys ==
    {"process_id", "blueprint_id", "stage", "validated", "promoted_to",
     "timestamp_last_touched"}

SafeMetaKeys ==
    {"plan_id", "plan_version", "plan_hash", "idempotency_key", "error_context"}

SnapshotLogEntries == 10

Restrict(d, keys) == [k \in DOMAIN d \cap keys |-> d[k]]

\* log[-n:]
LastEntries(log, n) ==
    SubSeq(log, IF Len(log) > n THEN Len(log) - n + 1 ELSE 1, Len(log))

\* len(s) of the strings that occur in payloads
StrLen(s) ==
    CASE s \in {"ssn", "pin"}                    -> 3
      [] s \in {"1234", "9876", "acme"}          -> 4
      [] s \in {"078-05-1120", "219-09-9999"}    -> 11
      [] s = "client"                            -> 6
      [] OTHER                                   -> 0

RECURSIVE ItemsLen(_, _)
ItemsLen(items, n) ==
    IF n = 0 THEN 0
    ELSE ItemsLen(items, n - 1) + (StrLen(items[n][1]) + 2) + 2
           + (StrLen(items[n][2]) + 2) + (IF n > 1 THEN 2 ELSE 0)

\* len(str(payload)): "{'k': 'v', 'k2': 'v2'}"
PayloadSize(items) == 2 + ItemsLen(items, Len(items))

\* variant: the payload is copied into the snapshot
PayloadSummaryRaw(items) == [keys |-> items, size |-> PayloadSize(items)]

PayloadSummary(items) ==
    [keys |-> [k \in 1..Len(items) |-> items[k][1]], size |-> PayloadSize(items)]

CreateHdoSnapshot(hdo) ==
    LET s0 == Restrict(hdo, SafeTopKeys)
        s1 == IF Has(hdo, "meta") THEN Put(s0, "meta", Restrict(hdo.meta, SafeMetaKeys))
              ELSE s0
        s2 == IF Has(hdo, "log")
              THEN Put(s1, "log", LastEntries(hdo.log, SnapshotLogEntries))
              ELSE s1
    IN  IF Has(hdo, "payload")
        THEN Put(s2, "payload_summary", PayloadSummary(hdo.payload))
        ELSE s2

\* the message of the RuntimeError run_altitude_plan raises
PlanFailed(plan_id, eid) == [plan_id |-> plan_id, error_id |-> eid]

NotRaised == PlanFailed(Absent, 0)

\* -------------------------------------------------------------------- state
VARIABLES
    plan,         \* plan[i]: the plan argument of invocation i
    callerHdo,    \* callerHdo[i]: the dict the caller passed as hdo
    copyHdo,      \* copyHdo[i]: the dict hdo.copy() made in invocation i
    logs,         \* heap of list objects (hdo['log'])
    metas,        \* heap of dict objects (hdo['meta'])
    payloads,     \* heap of dict objects (hdo['payload'])
    current_hdo,  \* orchestration_runner.current_hdo: 0 (None) or i for copyHdo[i]
    current_plan, \* orchestration_runner.current_plan: 0 (None) or i for plan[i]
    pc,           \* pc[i]: where the coroutine of invocation i stands
    idx,          \* idx[i]: position of the for loop over plan['steps']
    err,          \* err[i]: the exception being handled
    ctxHdo,       \* ctxHdo[i]: invoke_context['hdo'] of the pending orchestra_invoke
    running,      \* the coroutine the event loop is executing, 0 when none
    result,       \* result[i]: the dict run_altitude_plan returned (0: none)
    raised,       \* raised[i]: the RuntimeError run_altitude_plan raised
    errorLog,     \* records handed to _insert_error_record, in order
    nextId,       \* the next fresh uuid4
    calls,        \* history: delegate calls made, as <<invocation, step_id>>
    orig,         \* history: the caller's HDO as it was when the call was made
    active,       \* _active_orchestrations: the execution contexts registered
    nextExec,     \* the next fresh execution_id
    events,       \* sidecar events orchestra_invoke emitted, in order
    sidecar,      \* "up": every emission succeeds; "flaky": one may raise
    delegate,     \* "simulated": the _simulate_* agents; "external": any agent
                  \* that keeps the delegate contract
    clock,        \* what datetime.now() returns next
    sinkHdo,      \* the hdo argument of a direct build_error_record call
    sinkErr,      \* its err argument
    sinkRecords   \* the records such calls returned

vars == <<plan, callerHdo, copyHdo, logs, metas, payloads, current_hdo,
          current_plan, pc, idx, err, ctxHdo, running, result, raised,
          errorLog, nextId, calls, orig, active, nextExec, events, sidecar,
          delegate, clock, sinkHdo, sinkErr, sinkRecords>>

sinkVars == <<sinkHdo, sinkErr, sinkRecords>>

inputVars == <<plan, callerHdo, orig, sidecar, delegate, sinkVars>>

invokeVars == <<active, nextExec, events>>

CRef(i) == IF i = 1 THEN "c1" ELSE "c2"   \* objects the caller created

NRef(i) == IF i = 1 THEN "n1" ELSE "n2"   \* objects invocation i creates

Refs == {"c1", "c2", "n1", "n2"}

PlanId(i) == IF i = 1 THEN "plan-A" ELSE "plan-B"

Plan(plan_id, steps) == [plan_id |-> plan_id, version |-> "1.0.0", steps |-> steps]

\* the Runner's HDO and its log, as the code reaches them through self
CurHdo == copyHdo[current_hdo]

CurLog == logs[CurHdo.log]

CurStep(i) == plan[i].steps[idx[i]]

\* the caller's HDO with the objects it refers to
DeepValue(h, ls, ms, ps) ==
    [top |-> h,
     log |-> IF Has(h, "log") THEN ls[h.log] ELSE <<>>,
     meta |-> IF Has(h, "meta") THEN ms[h.meta] ELSE EmptyDict,
     payload |-> IF Has(h, "payload") THEN ps[h.payload] ELSE EmptyDict]

CallerValue(i) == DeepValue(callerHdo[i], logs, metas, payloads)

\* ------------------------------------------------------------------ actions
\* self.current_hdo['timestamp_last_touched'] = the time just read
Touch(h, now) == Put(h, "timestamp_last_touched", now)

\* self.current_hdo = hdo.copy(): a new top-level dict, the same nested objects
ShallowCopy(h) == h

\* run_altitude_plan up to the for loop, with _initialize_hdo_execution
Start(i) ==
    /\ pc[i] = "call" /\ running = 0
    /\ LET copy == ShallowCopy(callerHdo[i])
           h1 == IF ~Has(copy, "log") THEN Put(copy, "log", NRef(i)) ELSE copy
           h2 == IF ~Has(h1, "meta") THEN Put(h1, "meta", NRef(i)) ELSE h1
           m == metas[h2.meta]
       IN  /\ copyHdo' = [copyHdo EXCEPT ![i] = Touch(h2, clock)]
           /\ metas' = [metas EXCEPT ![h2.meta] =
                            IF Has(m, "altitude_trace") THEN m
                            ELSE Put(m, "altitude_trace", "{}")]
           /\ logs' = [logs EXCEPT ![h1.log] = Append(@, StartEntry(plan[i]))]
    /\ current_plan' = i
    /\ current_hdo' = i
    /\ pc' = [pc EXCEPT ![i] = "loop"]
    /\ running' = i
    /\ clock' = clock + 1
    /\ UNCHANGED <<inputVars, invokeVars, payloads, idx, err, ctxHdo, result, raised,
                   errorLog, nextId, calls>>

\* _execute_step up to the call of _invoke_step: skip check, 'started' entry
ExecuteStep(i) ==
    /\ pc[i] = "loop" /\ running = i
    /\ idx[i] <= Len(plan[i].steps)
    /\ IF ShouldExecuteStep(CurStep(i), CurLog)
       THEN /\ logs' = [logs EXCEPT ![CurHdo.log] = RecordStepStart(@, CurStep(i))]
            /\ pc' = [pc EXCEPT ![i] = "invoke"]
            /\ idx' = idx
       ELSE /\ logs' = [logs EXCEPT ![CurHdo.log] = RecordStepSkipped(@, CurStep(i))]
            /\ idx' = [idx EXCEPT ![i] = @ + 1]
            /\ pc' = pc
    /\ copyHdo' = [copyHdo EXCEPT ![current_hdo] = Touch(@, clock)]
    /\ clock' = clock + 1
    /\ UNCHANGED <<inputVars, invokeVars, metas, payloads, current_hdo, current_plan,
                   err, ctxHdo, running, result, raised, errorLog, nextId, calls>>

\* the checks orchestra_invoke makes before it registers the execution
InvokeError(step, h, ms) ==
    IF ~Has(h, "process_id") THEN Exc("KeyError", <<"process_id">>, 0)
    ELSE IF step.agent_id = "" THEN Exc("ValueError", <<"agent_id is required">>, 0)
    ELSE IF step.action = "" THEN Exc("ValueError", <<"action is required">>, 0)
    ELSE IF h.process_id = EmptyPid
    THEN Exc("ValueError", <<"process_id is required in context">>, 0)
    ELSE ValidateHeirIds(h.process_id,
                         IF Has(h, "meta") /\ Has(ms[h.meta], "idempotency_key")
                         THEN ms[h.meta].idempotency_key ELSE NoIdem)

\* _post_sidecar_event: with the sidecar up the event is posted; the call to
\* a flaky sidecar may raise instead
EmitOutcomes == IF sidecar = "flaky" THEN {TRUE, FALSE} ELSE {TRUE}

EmitError == Exc("ConnectionError", <<"sidecar unavailable">>, 0)

\* execution_context of orchestra_invoke, the value kept in _active_orchestrations
ExecutionContext(execution_id, i, step) ==
    [execution_id |-> execution_id, inv |-> i,
     step_id |-> step.step_id, agent_id |-> step.agent_id]

\* the event _post_sidecar_event builds; posted is FALSE when the call raised
SidecarEvent(event_type, ctx, posted) ==
    [event_type |-> event_type, execution_id |-> ctx.execution_id, inv |-> ctx.inv,
     step_id |-> ctx.step_id, agent_id |-> ctx.agent_id, posted |-> posted]

\* variant: the finally clause is missing
UnregisterNothing(act, ctx) == act

\* finally: _active_orchestrations.pop(execution_id, None)
Unregister(act, ctx) == act \ {ctx}

\* the execution context of the orchestra_invoke call invocation i is inside
Pending(i) == {c \in active : c.inv = i}

\* variant: the except branch emits no 'orchestration_failed' event
InvokeExceptSilent(i, ctx, h, e, evs) ==
    /\ errorLog' = Append(errorLog,
                          BuildErrorRecord(nextId, "orchestra_invoke", i, h,
                                           ctx.agent_id, e))
    /\ events' = evs
    /\ err' = [err EXCEPT ![i] =
                  Exc("RuntimeError",
                      <<"Agent ", ctx.agent_id, " failed; error_id=">>, nextId)]
    /\ nextId' = nextId + 1

\* the except branch of orchestra_invoke for exception e raised in its try
\* block, evs being the events so far: error record built from hdo h and
\* inserted, 'orchestration_failed' event, RuntimeError naming the error_id.
\* An exception of that last emission leaves the branch in its place.
InvokeExcept(i, ctx, h, e, evs) ==
    /\ errorLog' = Append(errorLog,
                          BuildErrorRecord(nextId, "orchestra_invoke", i, h,
                                           ctx.agent_id, e))
    /\ \E ok \in EmitOutcomes :
          /\ events' = Append(evs, SidecarEvent("orchestration_failed", ctx, ok))
          /\ err' = [err EXCEPT ![i] =
                        IF ok
                        THEN Exc("RuntimeError",
                                 <<"Agent ", ctx.agent_id, " failed; error_id=">>, nextId)
                        ELSE EmitError]
    /\ nextId' = nextId + 1

\* _invoke_step and orchestra_invoke up to the await of the delegate
Invoke(i) ==
    /\ pc[i] = "invoke" /\ running = i
    /\ LET e == InvokeError(CurStep(i), CurHdo, metas)
           ctx == ExecutionContext(nextExec, i, CurStep(i))
       IN  IF e # NoExc
           THEN /\ err' = [err EXCEPT ![i] = e]
                /\ pc' = [pc EXCEPT ![i] = "except"]
                /\ UNCHANGED <<ctxHdo, running, calls, invokeVars, errorLog, nextId>>
           ELSE /\ ctxHdo' = [ctxHdo EXCEPT ![i] = current_hdo]
                /\ nextExec' = nextExec + 1
                /\ \E ok \in EmitOutcomes :
                      LET evs == Append(events,
                                        SidecarEvent("orchestration_started", ctx, ok))
                      IN  IF ok
                          THEN /\ events' = evs
                               /\ active' = active \cup {ctx}
                               /\ calls' = Append(calls, <<i, CurStep(i).step_id>>)
                               /\ pc' = [pc EXCEPT ![i] = "delegating"]
                               /\ running' = 0
                               /\ UNCHANGED <<err, errorLog, nextId>>
                          ELSE /\ InvokeExcept(i, ctx, CurHdo, EmitError, evs)
                               /\ active' = Unregister(active \cup {ctx}, ctx)
                               /\ pc' = [pc EXCEPT ![i] = "except"]
                               /\ UNCHANGED <<running, calls>>
    /\ UNCHANGED <<inputVars, copyHdo, logs, metas, payloads, current_hdo,
                   current_plan, idx, result, raised, clock>>

\* result['hdo_updates'] of the delegate that was awaited
DelegateUpdates(agent_id) ==
    IF delegate = "external" THEN ExternalUpdates ELSE {HdoUpdatesOf(agent_id)}

\* the delegate returns: orchestra_invoke emits 'orchestration_completed' and
\* returns the result, _invoke_step applies hdo_updates, _execute_step
\* records the completion
DelegateReturn(i) ==
    /\ pc[i] = "delegating" /\ running = 0
    /\ running' = i
    /\ \E ctx \in Pending(i), ok \in EmitOutcomes,
          updates \in DelegateUpdates(CurStep(i).agent_id) :
          LET evs == Append(events, SidecarEvent("orchestration_completed", ctx, ok))
              e == ApplyUpdatesError(CurHdo, updates)
          IN  /\ active' = Unregister(active, ctx)
              /\ IF ~ok
                 THEN /\ InvokeExcept(i, ctx, copyHdo[ctxHdo[i]], EmitError, evs)
                      /\ pc' = [pc EXCEPT ![i] = "except"]
                      /\ UNCHANGED <<copyHdo, logs, metas, payloads, idx, clock>>
                 ELSE /\ events' = evs
                      /\ UNCHANGED <<errorLog, nextId>>
                      /\ IF e # NoExc
                         THEN /\ err' = [err EXCEPT ![i] = e]
                              /\ pc' = [pc EXCEPT ![i] = "except"]
                              /\ UNCHANGED <<copyHdo, logs, metas, payloads, idx, clock>>
                         ELSE /\ payloads' = IF Has(updates, "payload")
                                             THEN [payloads EXCEPT ![CurHdo.payload] =
                                                      Update(@, updates.payload)]
                                             ELSE payloads
                              /\ metas' = IF Has(updates, "meta")
                                          THEN [metas EXCEPT ![CurHdo.meta] =
                                                   Update(@, updates.meta)]
                                          ELSE metas
                              /\ copyHdo' = [copyHdo EXCEPT ![current_hdo] =
                                                Touch(ApplyTopUpdates(@, updates), clock)]
                              /\ clock' = clock + 1
                              /\ logs' = [logs EXCEPT ![CurHdo.log] =
                                             RecordStepCompletion(@, CurStep(i))]
                              /\ idx' = [idx EXCEPT ![i] = @ + 1]
                              /\ pc' = [pc EXCEPT ![i] = "loop"]
                              /\ err' = err
    /\ UNCHANGED <<inputVars, current_hdo, current_plan, ctxHdo, result,
                   raised, calls, nextExec>>

\* variant: the registry entry is popped only when the delegate returned
DelegateRaiseLeaking(i) ==
    /\ pc[i] = "delegating" /\ running = 0
    /\ running' = i
    /\ \E ctx \in Pending(i), e \in DelegateErrors :
          /\ InvokeExcept(i, ctx, copyHdo[ctxHdo[i]], e, events)
          /\ active' = active
    /\ pc' = [pc EXCEPT ![i] = "except"]
    /\ UNCHANGED <<inputVars, copyHdo, logs, metas, payloads, current_hdo,
                   current_plan, idx, ctxHdo, result, raised, calls, nextExec, clock>>

\* the delegate raises: the except branch of orchestra_invoke builds and
\* inserts an error record and raises "Agent ... failed; error_id=..."
DelegateRaise(i) ==
    /\ pc[i] = "delegating" /\ running = 0
    /\ running' = i
    /\ \E ctx \in Pending(i), e \in DelegateErrors :
          /\ InvokeExcept(i, ctx, copyHdo[ctxHdo[i]], e, events)
          /\ active' = Unregister(active, ctx)
    /\ pc' = [pc EXCEPT ![i] = "except"]
    /\ UNCHANGED <<inputVars, copyHdo, logs, metas, payloads, current_hdo,
                   current_plan, idx, ctxHdo, result, raised, calls, nextExec, clock>>

\* the delegate never answers: nothing in _invoke_step, orchestra_invoke or
\* _delegate_to_agent ends the await, the coroutine stays suspended
DelegateHang(i) ==
    /\ pc[i] = "delegating" /\ running = 0
    /\ pc' = [pc EXCEPT ![i] = "suspended"]
    /\ UNCHANGED <<inputVars, invokeVars, copyHdo, logs, metas, payloads,
                   current_hdo, current_plan, idx, err, ctxHdo, running, result,
                   raised, errorLog, nextId, calls, clock>>

\* variant: a failure that is not retried is recorded and the loop goes on
StepExceptSwallowed(i) ==
    /\ pc[i] = "except" /\ running = i
    /\ LET log1 == RecordStepFailure(CurLog, CurStep(i), err[i])
       IN  /\ logs' = [logs EXCEPT ![CurHdo.log] = log1]
           /\ IF ShouldRetryStep(CurStep(i), err[i], log1)
              THEN /\ pc' = [pc EXCEPT ![i] = "backoff"]
                   /\ running' = 0
                   /\ idx' = idx
              ELSE /\ pc' = [pc EXCEPT ![i] = "loop"]
                   /\ running' = running
                   /\ idx' = [idx EXCEPT ![i] = @ + 1]
    /\ copyHdo' = [copyHdo EXCEPT ![current_hdo] = Touch(@, clock)]
    /\ clock' = clock + 1
    /\ UNCHANGED <<inputVars, invokeVars, metas, payloads, current_hdo,
                   current_plan, err, ctxHdo, result, raised, errorLog, nextId, calls>>

\* variant: the failed attempt's hdo_updates are applied all the same
StepExceptApplying(i) ==
    /\ pc[i] = "except" /\ running = i
    /\ LET log1 == RecordStepFailure(CurLog, CurStep(i), err[i])
       IN  /\ logs' = [logs EXCEPT ![CurHdo.log] = log1]
           /\ IF ShouldRetryStep(CurStep(i), err[i], log1)
              THEN /\ pc' = [pc EXCEPT ![i] = "backoff"]
                   /\ running' = 0
              ELSE /\ pc' = [pc EXCEPT ![i] = "fail"]
                   /\ running' = running
    /\ copyHdo' = [copyHdo EXCEPT ![current_hdo] =
                      Touch(ApplyTopUpdates(@, HdoUpdatesOf(CurStep(i).agent_id)), clock)]
    /\ clock' = clock + 1
    /\ UNCHANGED <<inputVars, invokeVars, metas, payloads, current_hdo, current_plan,
                   idx, err, ctxHdo, result, raised, errorLog, nextId, calls>>

\* the except branch of _execute_step: 'failed' entry, then the retry decision
StepExcept(i) ==
    /\ pc[i] = "except" /\ running = i
    /\ LET log1 == RecordStepFailure(CurLog, CurStep(i), err[i])
       IN  /\ logs' = [logs EXCEPT ![CurHdo.log] = log1]
           /\ IF ShouldRetryStep(CurStep(i), err[i], log1)
              THEN /\ pc' = [pc EXCEPT ![i] = "backoff"]
                   /\ running' = 0
              ELSE /\ pc' = [pc EXCEPT ![i] = "fail"]
                   /\ running' = running
    /\ copyHdo' = [copyHdo EXCEPT ![current_hdo] = Touch(@, clock)]
    /\ clock' = clock + 1
    /\ UNCHANGED <<inputVars, invokeVars, metas, payloads, current_hdo, current_plan,
                   idx, err, ctxHdo, result, raised, errorLog, nextId, calls>>

\* asyncio.sleep(backoff_seconds) is over: _execute_step runs again for the step
BackoffDone(i) ==
    /\ pc[i] = "backoff" /\ running = 0
    /\ pc' = [pc EXCEPT ![i] = "loop"]
    /\ running' = i
    /\ UNCHANGED <<inputVars, invokeVars, copyHdo, logs, metas, payloads, current_hdo,
                   current_plan, idx, err, ctxHdo, result, raised, errorLog,
                   nextId, calls, clock>>

\* the loop is over: _complete_hdo_execution, return self.current_hdo
Complete(i) ==
    /\ pc[i] = "loop" /\ running = i
    /\ idx[i] > Len(plan[i].steps)
    /\ logs' = [logs EXCEPT ![CurHdo.log] = Append(@, CompleteEntry(plan[current_plan]))]
    /\ copyHdo' = [copyHdo EXCEPT ![current_hdo] = Touch(CompleteTop(@), clock)]
    /\ clock' = clock + 1
    /\ result' = [result EXCEPT ![i] = current_hdo]
    /\ pc' = [pc EXCEPT ![i] = "returned"]
    /\ running' = 0
    /\ UNCHANGED <<inputVars, invokeVars, metas, payloads, current_hdo, current_plan, idx,
                   err, ctxHdo, raised, errorLog, nextId, calls>>

\* the except branch of run_altitude_plan
RunnerFail(i) ==
    /\ pc[i] = "fail" /\ running = i
    /\ errorLog' = Append(errorLog,
                          BuildErrorRecord(nextId, "run_altitude_plan", i, CurHdo,
                                           "unknown", err[i]))
    /\ metas' = [metas EXCEPT ![CurHdo.meta] = RecordHdoError(@, nextId)]
    /\ raised' = [raised EXCEPT ![i] = PlanFailed(plan[i].plan_id, nextId)]
    /\ nextId' = nextId + 1
    /\ pc' = [pc EXCEPT ![i] = "raised"]
    /\ running' = 0
    /\ UNCHANGED <<inputVars, invokeVars, copyHdo, logs, payloads, current_hdo, current_plan,
                   idx, err, ctxHdo, result, calls, clock>>

Next ==
    \E i \in Inv :
        \/ Start(i)
        \/ ExecuteStep(i)
        \/ Invoke(i)
        \/ DelegateReturn(i)
        \/ DelegateRaise(i)
        \/ DelegateHang(i)
        \/ StepExcept(i)
        \/ BackoffDone(i)
        \/ Complete(i)
        \/ RunnerFail(i)

\* ------------------------------------------------------------------- inputs
AgentIds == {"input-mapper", "input-validator", "overall-orchestrator",
             "middle-subagent-enforcer", "timeout-notifier"}

\* retry policies: every budget with each failure category, one with none
RetryPolicies ==
    {Retry(n, ro) : n \in 1..MaxRetries, ro \in {{"timeout"}, {"agent_failure"}}}
    \cup {Retry(MaxRetries, {})}

Whens ==
    {NoWhen}
    \cup {When("on_success", d, Absent) : d \in {{}, {"s1"}, {"s1", "s2"}}}
    \cup {When("on_failure", d, Absent) : d \in {{}, {"s1"}}}
    \cup {When("conditional", {}, x) :
             x \in {Absent, "true", "false", "False", PromotionExpr,
                    GuardedPromotionExpr, "priority > 3"}}
    \cup {When("manual", {}, Absent)}

\* the steps a plan may hold at position k: plans whose steps differ in the
\* agent, plans whose steps differ in the condition, plans whose steps differ
\* in the retry policy
AgentStepsAt(k) == {Step(StepIds[k], a, NoWhen, NoRetry) : a \in AgentIds}

WhenStepsAt(k) ==
    LET sid == StepIds[k]
    IN  {Step(sid, "input-mapper", w, NoRetry) : w \in Whens}
            \cup {Step(sid, "input-mapper", When(c, {"s1"}, Absent),
                   Retry(MaxRetries, {"agent_failure"})) :
                 c \in {"on_success", "on_failure"}}
        \cup {Step(sid, "middle-subagent-enforcer", NoWhen, NoRetry)}

RetryStepsAt(k) ==
    {Step(StepIds[k], "input-mapper", NoWhen, r) : r \in RetryPolicies \cup {NoRetry}}
    \cup {Step(StepIds[k], "timeout-notifier", NoWhen, Retry(MaxRetries, ro)) :
             ro \in {{"timeout"}, {"agent_failure"}, {}}}

\* every budget on an agent whose failures are retried under 'agent_failure'
\* only, and one agent whose failures always mention a timeout
AnsweredStepsAt(k) ==
    LET sid == StepIds[k]
    IN  {Step(sid, "input-mapper", NoWhen, Retry(n, {"agent_failure"})) :
            n \in 1..MaxRetries}
        \cup {Step(sid, "input-mapper", NoWhen, NoRetry),
              Step(sid, "input-mapper", NoWhen, Retry(MaxRetries, {"timeout"})),
              Step(sid, "timeout-notifier", NoWhen, Retry(MaxRetries, {"timeout"}))}

\* fewer kinds of step, for the runs on unusual HDOs
PlainStepsAt(k) ==
    LET sid == StepIds[k]
    IN  {Step(sid, "input-mapper", NoWhen, NoRetry),
         Step(sid, "overall-orchestrator", NoWhen, Retry(MaxRetries, {"agent_failure"})),
         Step(sid, "input-mapper", When("on_success", {"s1"}, Absent), NoRetry),
         Step(sid, "input-mapper", When("on_failure", {"s1"}, Absent), NoRetry),
         Step(sid, "input-mapper", When("conditional", {}, PromotionExpr), NoRetry)}

\* two invocations in flight: fewer kinds still
ConcStepsAt(k) ==
    LET sid == StepIds[k]
    IN  {Step(sid, "input-mapper", NoWhen, NoRetry),
         Step(sid, "overall-orchestrator", NoWhen, Retry(MaxRetries, {"agent_failure"}))}

StepsAt(kind, k) ==
    CASE kind = "agent" -> AgentStepsAt(k)
      [] kind = "when"  -> WhenStepsAt(k)
      [] kind = "retry" -> RetryStepsAt(k)
      [] kind = "plain" -> PlainStepsAt(k)
      [] kind = "conc"  -> ConcStepsAt(k)
      [] kind = "answered" -> AnsweredStepsAt(k)

\* all step sequences of length 0..n whose k-th step is of the kind
RECURSIVE StepSeqs(_, _)
StepSeqs(kind, n) ==
    IF n = 0 THEN {<<>>}
    ELSE LET shorter == StepSeqs(kind, n - 1)
         IN  shorter \cup {Append(q, st) : q \in {x \in shorter : Len(x) = n - 1},
                                           st \in StepsAt(kind, n)}

\* entries an earlier run may have left in the caller's log
PriorEntries ==
    {Entry("input-mapper", "run", "failed", "s1", Absent,
           Exc("RuntimeError", <<"Agent ", "input-mapper", " failed; error_id=">>, 0),
           Absent, Absent),
     Entry("input-mapper", "run", "completed", "s1", Absent, NoExc, Absent, Absent),
     Entry("middle-subagent-enforcer", "run", "completed", "s0", Absent, NoExc, Absent, "True"),
     Entry("middle-subagent-enforcer", "run", "completed", "s0", Absent, NoExc, Absent, "False")}

RECURSIVE PriorLogs(_)
PriorLogs(n) ==
    IF n = 0 THEN {<<>>}
    ELSE LET shorter == PriorLogs(n - 1)
         IN  shorter \cup {Append(q, e) : q \in {x \in shorter : Len(x) = n - 1},
                                          e \in PriorEntries}

\* what the caller passes as hdo: which keys it has and what they hold
HdoInput(pid, hasLog, prior, hasMeta, idem, hasPayload) ==
    [pid |-> pid, hasLog |-> hasLog, prior |-> prior, hasMeta |-> hasMeta,
     idem |-> idem, hasPayload |-> hasPayload]

DefaultHdo == HdoInput(GoodPid, FALSE, <<>>, FALSE, NoIdem, TRUE)

HdoInputs ==
    {DefaultHdo}
    \cup {HdoInput(p, l, <<>>, FALSE, NoIdem, TRUE) :
             p \in {ShortSeqPid, UpperSlugPid, EmptyPid}, l \in BOOLEAN}
    \cup {HdoInput(GoodPid, TRUE, q, TRUE, NoIdem, TRUE) : q \in PriorLogs(MaxPrior)}
    \cup {HdoInput(GoodPid, FALSE, <<>>, TRUE, k, TRUE) :
             k \in {Idem(TRUE, "IDEM", GoodPid), Idem(TRUE, "IDEM", ShortSeqPid),
                    Idem(TRUE, "IDEM", Pid("PROC", "acme_01", 8, 6, 3)),
                    Idem(TRUE, "KEY", GoodPid)}}
    \cup {HdoInput(GoodPid, FALSE, <<>>, FALSE, NoIdem, FALSE)}

TopOf(i, in) ==
    LET h0 == [process_id |-> in.pid, stage |-> "input", validated |-> FALSE]
        h1 == IF in.hasLog THEN Put(h0, "log", CRef(i)) ELSE h0
        h2 == IF in.hasMeta THEN Put(h1, "meta", CRef(i)) ELSE h1
    IN  IF in.hasPayload THEN Put(h2, "payload", CRef(i)) ELSE h2

\* what the caller's payload holds before the run
InitialPayload == [client |-> "acme", mapped_data |-> "stale"]

PayloadOf(in) == IF in.hasPayload THEN InitialPayload ELSE EmptyDict

MetaOf(in) ==
    IF in.idem.present THEN [idempotency_key |-> in.idem] ELSE EmptyDict

\* the state when the calls named in `called` have been made with inputs ins
InitWith(called, plans, ins) ==
    /\ plan = [i \in Inv |-> Plan(PlanId(i), plans[i])]
    /\ callerHdo = [i \in Inv |-> TopOf(i, ins[i])]
    /\ copyHdo = [i \in Inv |-> EmptyDict]
    /\ logs = [r \in Refs |-> IF r = "c1" THEN ins[1].prior
                              ELSE IF r = "c2" THEN ins[2].prior ELSE <<>>]
    /\ metas = [r \in Refs |-> IF r = "c1" THEN MetaOf(ins[1])
                               ELSE IF r = "c2" THEN MetaOf(ins[2]) ELSE EmptyDict]
    /\ payloads = [r \in Refs |-> IF r = "c1" THEN PayloadOf(ins[1])
                                  ELSE IF r = "c2" THEN PayloadOf(ins[2]) ELSE EmptyDict]
    /\ current_hdo = 0
    /\ current_plan = 0
    /\ pc = [i \in Inv |-> IF i \in called THEN "call" ELSE "idle"]
    /\ idx = [i \in Inv |-> 1]
    /\ err = [i \in Inv |-> NoExc]
    /\ ctxHdo = [i \in Inv |-> 0]
    /\ running = 0
    /\ result = [i \in Inv |-> 0]
    /\ raised = [i \in Inv |-> NotRaised]
    /\ errorLog = <<>>
    /\ nextId = 1
    /\ calls = <<>>
    /\ active = {}
    /\ nextExec = 1
    /\ events = <<>>
    /\ clock = 1
    /\ orig = [i \in Inv |->
                 [top |-> TopOf(i, ins[i]), log |-> ins[i].prior,
                  meta |-> IF ins[i].hasMeta THEN MetaOf(ins[i]) ELSE EmptyDict,
                  payload |-> PayloadOf(ins[i])]]

\* build_error_record is not called from outside the Runner
NoSinkCall ==
    /\ sinkHdo = EmptyDict
    /\ sinkErr = NoExc
    /\ sinkRecords = <<>>

\* one invocation: a plan of one of the kinds on the usual HDO, or a plain
\* plan on any HDO
Init ==
    /\ sidecar = "up"
    /\ delegate = "simulated"
    /\ NoSinkCall
    /\ \/ \E kind \in {"agent", "when", "retry"} :
             \E steps \in StepSeqs(kind, MaxSteps) :
                InitWith({1}, <<steps, <<>>>>, <<DefaultHdo, DefaultHdo>>)
       \/ \E steps \in StepSeqs("plain", MaxSteps), in \in HdoInputs :
             InitWith({1}, <<steps, <<>>>>, <<in, DefaultHdo>>)

Spec == Init /\ [][Next]_vars

\* two invocations in flight on the one module-level Runner
ConcHdoInputs == {DefaultHdo, HdoInput(GoodPid, TRUE, <<>>, TRUE, NoIdem, TRUE)}

InitConc ==
    /\ sidecar = "up"
    /\ delegate = "simulated"
    /\ NoSinkCall
    /\ \E s1 \in StepSeqs("conc", MaxConcSteps), s2 \in StepSeqs("conc", MaxConcSteps),
          in1 \in ConcHdoInputs, in2 \in ConcHdoInputs :
             InitWith({1, 2}, <<s1, s2>>, <<in1, in2>>)

SpecConc == InitConc /\ [][Next]_vars

\* one invocation whose sidecar may fail to take an event
InitTel ==
    /\ sidecar = "flaky"
    /\ delegate = "simulated"
    /\ NoSinkCall
    /\ \E steps \in StepSeqs("conc", MaxSteps) :
          InitWith({1}, <<steps, <<>>>>, <<DefaultHdo, DefaultHdo>>)

SpecTel == InitTel /\ [][Next]_vars

\* one invocation whose agents are not the simulated ones, on an HDO that
\* comes with a meta and a payload of its own
KeyedHdo == HdoInput(GoodPid, TRUE, <<>>, TRUE, Idem(TRUE, "IDEM", GoodPid), TRUE)

InitUpd ==
    /\ sidecar = "up"
    /\ delegate = "external"
    /\ NoSinkCall
    /\ \E steps \in StepSeqs("conc", MaxSteps) :
          InitWith({1}, <<steps, <<>>>>, <<KeyedHdo, DefaultHdo>>)

SpecUpd == InitUpd /\ [][Next]_vars

\* one invocation whose every delegate call returns or raises, run by an
\* event loop that resumes a coroutine that is ready
NextAnswered ==
    \E i \in Inv :
        \/ Start(i)
        \/ ExecuteStep(i)
        \/ Invoke(i)
        \/ DelegateReturn(i)
        \/ DelegateRaise(i)
        \/ StepExcept(i)
        \/ BackoffDone(i)
        \/ Complete(i)
        \/ RunnerFail(i)

InitAnswered ==
    /\ sidecar = "up"
    /\ delegate = "simulated"
    /\ NoSinkCall
    /\ \E steps \in StepSeqs("answered", MaxSteps) :
          InitWith({1}, <<steps, <<>>>>, <<DefaultHdo, DefaultHdo>>)

SpecAnswered == InitAnswered /\ [][NextAnswered]_vars /\ WF_vars(NextAnswered)

\* a plan in flight while a second caller runs a one-step plan on the same
\* Runner, either caller's HDO having a valid or an invalid process_id
ProbeSteps == <<Step(StepIds[1], "input-mapper", NoWhen, NoRetry)>>

RegHdoInputs == {DefaultHdo, HdoInput(ShortSeqPid, FALSE, <<>>, FALSE, NoIdem, TRUE)}

InitReg ==
    /\ sidecar = "up"
    /\ delegate = "simulated"
    /\ NoSinkCall
    /\ \E s1 \in StepSeqs("conc", MaxConcSteps), in1 \in RegHdoInputs,
          in2 \in RegHdoInputs :
             InitWith({1, 2}, <<s1, ProbeSteps>>, <<in1, in2>>)

SpecReg == InitReg /\ [][Next]_vars

\* ------------------------------------------------ build_error_record alone
\* build_error_record(hdo, ctx, err) with an empty ctx: the record's
\* severity and hdo_snapshot next to the fields the Runner's records have
BuildRecord ==
    /\ sinkRecords = <<>>
    /\ sinkRecords' =
          <<[error_id |-> nextId, message |-> sinkErr.parts,
             error_type |-> sinkErr.type,
             severity |-> DetermineErrorSeverity(sinkErr),
             hdo_snapshot |-> CreateHdoSnapshot(sinkHdo)]>>
    /\ nextId' = nextId + 1
    /\ UNCHANGED <<plan, callerHdo, copyHdo, logs, metas, payloads, current_hdo,
                   current_plan, pc, idx, err, ctxHdo, running, result, raised,
                   errorLog, calls, orig, active, nextExec, events, sidecar,
                   delegate, clock, sinkHdo, sinkErr>>

NextSink == BuildRecord

SinkErrorTypes ==
    {"ValueError", "KeyError", "AttributeError", "Warning", "UserWarning",
     "DeprecationWarning", "Exception", "RuntimeError"}

SinkMessages ==
    {"Database Connection lost", "database connection lost after timeout",
     "Disk Full; validation failed", "permission denied", "out of memory",
     "authentication failed", "request TIMEOUT", "Network Error",
     "service unavailable", "invalid data in row 3", "time out",
     "database offline", "unexpected state"}

SinkErrors == {Exc(t, <<m>>, 0) : t \in SinkErrorTypes, m \in SinkMessages}

\* a log of n entries, told apart by their timestamps
SinkLog(n) == [k \in 1..n |-> [timestamp |-> k, status |-> "completed"]]

SinkLogLens == {0, 1, SnapshotLogEntries - 1, SnapshotLogEntries, MaxSinkLog}

SinkMetas ==
    { [plan_id |-> "plan-A"],
      [plan_id |-> "plan-A", api_token |-> "t-1"],
      [plan_id |-> "plan-A", api_token |-> "t-2"],
      [plan_id |-> "plan-B", plan_hash |-> "h2", altitude_trace |-> "{}"] }

SinkPayloads ==
    { <<>>,
      <<<<"ssn", "078-05-1120">>>>,
      <<<<"ssn", "219-09-9999">>>>,
      <<<<"ssn", "078-05-1120">>, <<"pin", "1234">>>>,
      <<<<"ssn", "078-05-1120">>, <<"pin", "9876">>>>,
      <<<<"pin", "1234">>, <<"ssn", "078-05-1120">>>>,
      <<<<"client", "acme">>, <<"pin", "1234">>>> }

SinkTops ==
    { [process_id |-> GoodPid, stage |-> "input", validated |-> FALSE],
      [process_id |-> GoodPid, stage |-> "middle", validated |-> TRUE,
       promoted_to |-> "output", blueprint_id |-> "bp-1", timestamp_last_touched |-> 7],
      [process_id |-> GoodPid, stage |-> "input", validated |-> FALSE,
       session_secret |-> "s-1"],
      [process_id |-> GoodPid, stage |-> "input", validated |-> FALSE,
       session_secret |-> "s-2"] }

\* an HDO with each of meta, log and payload held or not
SinkHdos ==
    { LET h1 == IF m = EmptyDict THEN top ELSE Put(top, "meta", m)
          h2 == IF n = MaxSinkLog + 1 THEN h1 ELSE Put(h1, "log", SinkLog(n))
      IN  IF hasPayload THEN Put(h2, "payload", p) ELSE h2 :
        top \in SinkTops, m \in SinkMetas \cup {EmptyDict},
        n \in SinkLogLens \cup {MaxSinkLog + 1},
        p \in SinkPayloads, hasPayload \in BOOLEAN }

SinkDefaultHdo == [process_id |-> GoodPid, stage |-> "input", validated |-> FALSE]

InitSink ==
    /\ sidecar = "up"
    /\ delegate = "simulated"
    /\ sinkRecords = <<>>
    /\ \/ sinkHdo \in SinkHdos /\ sinkErr = Exc("Exception", <<"unexpected state">>, 0)
       \/ sinkHdo = SinkDefaultHdo /\ sinkErr \in SinkErrors
    /\ InitWith({}, <<<<>>, <<>>>>, <<DefaultHdo, DefaultHdo>>)

SpecSink == InitSink /\ [][NextSink]_vars

\* ============================================================ properties
Called(i) == pc[i] \notin {"idle", "call"}

Finished(i) == pc[i] \in {"returned", "raised"}

\* the log of the copy invocation i made, and what the run added to it
RunnerLog(i) == logs[copyHdo[i].log]

NewEntries(i) == SubSeq(RunnerLog(i), Len(orig[i].log) + 1, Len(RunnerLog(i)))

IsPrefix(a, b) == Len(a) <= Len(b) /\ SubSeq(b, 1, Len(a)) = a

EntriesOf(log, step_id, statuses) ==
    {k \in 1..Len(log) : log[k].step_id = step_id /\ log[k].status \in statuses}

\* the status of the newest 'completed'/'failed' entry of a step, if any
LastTerminal(log, step_id) ==
    LET ks == EntriesOf(log, step_id, {"completed", "failed"})
    IN  IF ks = {} THEN Absent
        ELSE log[CHOOSE k \in ks : \A j \in ks : j <= k].status

RecordsOf(i) == {k \in 1..Len(errorLog) : errorLog[k].inv = i}

RunnerRecordsOf(i) ==
    {k \in RecordsOf(i) : errorLog[k].layer = "run_altitude_plan"}

\* ---------------------------------------------------------------------- C1
\* C1: concurrent invocations with different Plan/HDO pairs do not
\* interfere: an invocation that returns hands back the copy it made itself,
\* and the orchestration entries in that copy's log name its own plan only.
C1_NoInterference ==
    \A i \in Inv :
        pc[i] = "returned" =>
            /\ result[i] = i
            /\ \A k \in 1..Len(RunnerLog(i)) :
                  RunnerLog(i)[k].plan_id \in {Absent, plan[i].plan_id}

\* ---------------------------------------------------------------------- C2
\* C2: when the Runner raises at a step with max_retries = N whose every
\* failure came from the delegate and matched retry_on, on an HDO without
\* prior entries of that step, the log holds exactly N+1 'failed' entries of
\* the step.
FailureMatches(entry, retry_on) ==
    \/ "agent_failure" \in retry_on
    \/ /\ "timeout" \in retry_on
       /\ \E k \in 1..Len(entry.error_message) :
             "timeout" \in KeywordsIn(entry.error_message[k])

C2_RetryBound ==
    \A i \in Inv :
        pc[i] = "raised" =>
            LET st == CurStep(i)
                log == RunnerLog(i)
                failed == EntriesOf(log, st.step_id, {"failed"})
            IN  (/\ EntriesOf(orig[i].log, st.step_id,
                              {"started", "completed", "failed", "skipped"}) = {}
                 /\ \A k \in failed :
                       /\ log[k].error_type = "RuntimeError"
                       /\ FailureMatches(log[k], st.retry_policy.retry_on))
                => Cardinality(failed) = st.retry_policy.max_retries + 1

\* ---------------------------------------------------------------------- C3
\* C3: a run on an HDO whose process_id does not match the PROC pattern ends
\* by raising, never by returning, and has appended no log entry.
C3_ValidationFirst ==
    \A i \in Inv :
        (Finished(i) /\ ~MatchesProcPattern(orig[i].top.process_id)) =>
            /\ pc[i] = "raised"
            /\ RunnerLog(i) = orig[i].log

\* ---------------------------------------------------------------------- C4
\* C4: when run_altitude_plan has raised, the error names the plan's plan_id
\* and the error_id of the one record the Runner built for this invocation,
\* and meta.error_context.last_error_id of the Runner's HDO is that error_id.
C4_ErrorCorrelation ==
    \A i \in Inv :
        pc[i] = "raised" =>
            /\ raised[i].plan_id = plan[i].plan_id
            /\ Cardinality(RunnerRecordsOf(i)) = 1
            /\ \A k \in RunnerRecordsOf(i) :
                  /\ raised[i].error_id = errorLog[k].error_id
                  /\ Has(metas[copyHdo[i].meta], "error_context")
                  /\ metas[copyHdo[i].meta].error_context.last_error_id
                        = errorLog[k].error_id

\* a run that raised after the delegate layer had built a record of its own
C4_Witness ==
    /\ pc[1] = "raised"
    /\ Cardinality(RecordsOf(1)) >= 2
    /\ raised[1].error_id = 2

\* ---------------------------------------------------------------------- C5
\* C5: counting the records of both layers, a run that returned has produced
\* no ErrorRecord and a run that raised has produced exactly one.
C5_OneErrorRecord ==
    \A i \in Inv :
        /\ pc[i] = "returned" => RecordsOf(i) = {}
        /\ pc[i] = "raised" => Cardinality(RecordsOf(i)) = 1

\* ---------------------------------------------------------------------- C6
\* C6: after the call has returned or raised, the caller's HDO, with the
\* contents of its log, payload and meta, is what it was before the call.
C6_CallerUntouched ==
    \A i \in Inv : Finished(i) => CallerValue(i) = orig[i]

StepOutcome(i, k) ==
    LET log == NewEntries(i)
        ks == EntriesOf(log, plan[i].steps[k].step_id,
                        {"completed", "failed", "skipped"})
    IN  IF ks = {} THEN Absent
        ELSE log[CHOOSE n \in ks : \A j \in ks : j <= n].status

C8_SuccessfulCompletion ==
    \A i \in Inv :
        /\ pc[i] = "returned" =>
              /\ \A k \in 1..Len(plan[i].steps) :
                    StepOutcome(i, k) \in {"completed", "skipped"}
              /\ RunnerLog(i)[Len(RunnerLog(i))] = CompleteEntry(plan[i])
              /\ copyHdo[i].stage = "output"
              /\ copyHdo[i].validated = TRUE
              /\ raised[i] = NotRaised
        /\ pc[i] = "raised" =>
              \E k \in 1..Len(plan[i].steps) : StepOutcome(i, k) = "failed"

\* a run that returned although its last step, an orchestrator, had set
\* stage 'input' and validated false
C8_Witness ==
    /\ pc[1] = "returned"
    /\ Len(plan[1].steps) > 0
    /\ plan[1].steps[Len(plan[1].steps)].agent_id = "overall-orchestrator"
    /\ StepOutcome(1, Len(plan[1].steps)) = "completed"

\* ---------------------------------------------------------------------- C9
\* C9: a run of n unconditional steps none of which failed, on an HDO with
\* no prior log, ends with 2n+2 entries: start_orchestration, each step's
\* 'started' then 'completed' in plan order, complete_orchestration.
RECURSIVE HappySteps(_, _)
HappySteps(steps, n) ==
    IF n = 0 THEN <<>>
    ELSE HappySteps(steps, n - 1)
            \o << <<steps[n].step_id, "started">>, <<steps[n].step_id, "completed">> >>

HappyLog(p) ==
    << <<Absent, "start_orchestration">> >>
        \o HappySteps(p.steps, Len(p.steps))
        \o << <<Absent, "complete_orchestration">> >>

Shape(log) ==
    [k \in 1..Len(log) |->
        <<log[k].step_id,
          IF log[k].step_id = Absent THEN log[k].action ELSE log[k].status>>]

Unconditional(step) == step.when.condition \in {Absent, "always"}

C9_HappyPathLog ==
    \A i \in Inv :
        (/\ pc[i] = "returned"
         /\ orig[i].log = <<>>
         /\ \A k \in 1..Len(plan[i].steps) : Unconditional(plan[i].steps[k])
         /\ \A k \in 1..Len(RunnerLog(i)) : RunnerLog(i)[k].status # "failed")
        => /\ Len(RunnerLog(i)) = 2 * Len(plan[i].steps) + 2
           /\ Shape(RunnerLog(i)) = HappyLog(plan[i])

\* the mapper/validator scenario: two steps, six entries
C9_Witness ==
    /\ pc[1] = "returned"
    /\ Len(plan[1].steps) = 2
    /\ plan[1].steps[1].agent_id = "input-mapper"
    /\ plan[1].steps[2].agent_id = "input-validator"
    /\ Len(RunnerLog(1)) = 6
    /\ MatchesProcPattern(copyHdo[1].process_id)

\* --------------------------------------------------------------------- C10
\* C10: when _execute_step reaches an on_success step one of whose
\* depends_on step_ids has 'failed' as its newest terminal entry, it appends
\* one 'skipped' entry (condition_not_met) for the step and nothing else,
\* calls no delegate, and the run goes on to the next step.
BlockedOnSuccess(i) ==
    /\ pc[i] = "loop" /\ running = i
    /\ idx[i] <= Len(plan[i].steps)
    /\ CurStep(i).when.condition = "on_success"
    /\ \E d \in CurStep(i).when.depends_on : LastTerminal(RunnerLog(i), d) = "failed"

C10_SkipSemantics ==
    [][\A i \in Inv :
          BlockedOnSuccess(i) =>
             /\ Len(RunnerLog(i)') = Len(RunnerLog(i)) + 1
             /\ IsPrefix(RunnerLog(i), RunnerLog(i)')
             /\ LET e == RunnerLog(i)'[Len(RunnerLog(i)')]
                IN  /\ e.status = "skipped"
                    /\ e.step_id = CurStep(i).step_id
                    /\ e.skip_reason = "condition_not_met"
             /\ calls' = calls
             /\ pc'[i] = "loop"
             /\ idx'[i] = idx[i] + 1]_vars

\* a run that went on and returned after skipping such a step
C10_Witness ==
    /\ pc[1] = "returned"
    /\ \E k \in 1..Len(plan[1].steps) :
          /\ plan[1].steps[k].when.condition = "on_success"
          /\ \E d \in plan[1].steps[k].when.depends_on :
                LastTerminal(RunnerLog(1), d) = "failed"
          /\ StepOutcome(1, k) = "skipped"
          /\ EntriesOf(NewEntries(1), plan[1].steps[k].step_id,
                       {"started", "completed"}) = {}
          /\ k < Len(plan[1].steps)

\* --------------------------------------------------------------------- C11
\* the position of a step_id in the plan of invocation i, 0 when it has none
StepPos(i, step_id) ==
    LET ks == {k \in 1..Len(plan[i].steps) : plan[i].steps[k].step_id = step_id}
    IN  IF ks = {} THEN 0 ELSE CHOOSE k \in ks : TRUE

\* C11: a 'failed' entry the run wrote is either followed at once by the
\* next entry of the same step (the retry), or it is the last entry of the
\* log: then either the retry is pending, or the run is aborting or has
\* raised, no delegate was called for a later step, and so no entry of a
\* later step and no complete_orchestration entry follows.
C11_AbortOnFailure ==
    \A i \in Inv :
        Called(i) =>
            LET log == RunnerLog(i)
            IN  /\ \A k \in (Len(orig[i].log) + 1)..Len(log) :
                      log[k].status = "failed" =>
                          \/ /\ k < Len(log)
                             /\ log[k + 1].step_id = log[k].step_id
                          \/ /\ k = Len(log)
                             /\ \/ pc[i] = "backoff"
                                \/ /\ pc[i] = "loop"
                                   /\ idx[i] = StepPos(i, log[k].step_id)
                                \/ /\ pc[i] \in {"fail", "raised"}
                                   /\ \A c \in 1..Len(calls) :
                                         calls[c][1] = i =>
                                            StepPos(i, calls[c][2])
                                               <= StepPos(i, log[k].step_id)
                /\ pc[i] \in {"fail", "raised"} =>
                      /\ Len(log) > Len(orig[i].log)
                      /\ log[Len(log)].status = "failed"

\* a run that raised at the first of two steps after calling its delegate
C11_Witness ==
    /\ pc[1] = "raised"
    /\ Len(plan[1].steps) = 2
    /\ idx[1] = 1
    /\ Len(calls) > 0
    /\ EntriesOf(RunnerLog(1), plan[1].steps[2].step_id,
                 {"started", "completed", "failed", "skipped"}) = {}

\* --------------------------------------------------------------------- C12
\* C12: among the entries a run wrote, the steps' entries lie between the
\* start_orchestration and the complete_orchestration entry and begin with
\* the first step; an entry is followed by an entry of the same step, or by
\* the first entry of the next step of the plan, and then it is a 'completed'
\* or 'skipped' entry; and the invocation has at most one execution
\* registered as in flight, exactly when it awaits its delegate.
C12_SequentialSteps ==
    \A i \in Inv :
        Called(i) =>
            LET log == NewEntries(i)
                pos == [k \in 1..Len(log) |-> StepPos(i, log[k].step_id)]
            IN  /\ \A k \in 1..Len(log) :
                      IF log[k].step_id = Absent
                      THEN k = 1 \/ k = Len(log)
                      ELSE /\ k > 1
                           /\ IF log[k - 1].step_id = Absent
                              THEN pos[k] = 1
                              ELSE \/ pos[k] = pos[k - 1]
                                   \/ /\ pos[k] = pos[k - 1] + 1
                                      /\ log[k - 1].status \in {"completed", "skipped"}
                /\ Cardinality(Pending(i)) <= 1
                /\ Pending(i) # {} <=> pc[i] \in {"delegating", "suspended"}

\* a run that has its second delegate call in flight after the first returned
C12_Witness ==
    /\ pc[1] = "delegating"
    /\ idx[1] = 2
    /\ Len(calls) = 2
    /\ Cardinality(Pending(1)) = 1
    /\ StepOutcome(1, 1) = "completed"

\* --------------------------------------------------------------------- C13
\* the entries of one step among those a run wrote, in log order
RECURSIVE StatusesOf(_, _, _)
StatusesOf(log, step_id, n) ==
    IF n = 0 THEN <<>>
    ELSE IF log[n].step_id = step_id
         THEN Append(StatusesOf(log, step_id, n - 1), log[n].status)
         ELSE StatusesOf(log, step_id, n - 1)

\* the newest entry of the step of entry k that precedes it, 0 when none
PrevOfStep(log, k) ==
    LET ks == {j \in 1..(k - 1) : log[j].step_id = log[k].step_id}
    IN  IF ks = {} THEN 0 ELSE CHOOSE j \in ks : \A m \in ks : m <= j

CanProceed(i) ==
    ENABLED (\/ Start(i) \/ ExecuteStep(i) \/ Invoke(i) \/ DelegateReturn(i)
             \/ DelegateRaise(i) \/ DelegateHang(i) \/ StepExcept(i)
             \/ BackoffDone(i) \/ Complete(i) \/ RunnerFail(i))

\* C14: a run whose delegate does not answer is never left suspended: the
\* call is ended when timeout_seconds are over, so the invocation can still
\* take a step (the one that records the attempt as failed).
C14_StepTimeout ==
    \A i \in Inv : pc[i] = "suspended" => CanProceed(i)

\* --------------------------------------------------------------------- C15
\* the executions of a step whose delegate was called and raised
DelegateFailures(i, step_id) ==
    {e \in 1..Len(events) :
        /\ events[e].event_type = "orchestration_failed"
        /\ events[e].inv = i /\ events[e].step_id = step_id
        /\ \E b \in 1..Len(events) :
              /\ events[b].execution_id = events[e].execution_id
              /\ events[b].event_type = "orchestration_started"
              /\ events[b].posted
        /\ ~\E c \in 1..Len(events) :
              /\ events[c].execution_id = events[e].execution_id
              /\ events[c].event_type = "orchestration_completed"}

\* C15: whether or not the emissions went through, a finished run has, for
\* each step, as many 'failed' entries from orchestra_invoke as delegate calls
\* of the step raised, and a 'completed' entry for the call that returned:
\* the outcome is the delegate's, never the sidecar's.
C15_TelemetryIsolation ==
    \A i \in Inv :
        Finished(i) =>
            \A p \in 1..Len(plan[i].steps) :
                LET sid == plan[i].steps[p].step_id
                    log == NewEntries(i)
                IN  /\ Cardinality({k \in EntriesOf(log, sid, {"failed"}) :
                                       log[k].error_type
                                          \in {"RuntimeError", "ConnectionError"}})
                          = Cardinality(DelegateFailures(i, sid))
                    /\ (\E c \in 1..Len(events) :
                           /\ events[c].inv = i /\ events[c].step_id = sid
                           /\ events[c].event_type = "orchestration_completed")
                          => EntriesOf(log, sid, {"completed"}) # {}

\* --------------------------------------------------------------------- C16
\* what _validate_heir_ids says of the identifiers the caller handed in
IdsError(i) ==
    ValidateHeirIds(orig[i].top.process_id,
                    IF Has(orig[i].meta, "idempotency_key")
                    THEN orig[i].meta.idempotency_key ELSE NoIdem)

\* C16: a run on an HDO whose process_id or idempotency_key is malformed
\* produces no error record and leaves meta.error_context as it was.
C16_NoRecordOnInvalidIds ==
    \A i \in Inv :
        (Finished(i) /\ IdsError(i) # NoExc) =>
            /\ RecordsOf(i) = {}
            /\ ~Has(metas[copyHdo[i].meta], "error_context")

\* --------------------------------------------------------------------- C17
\* C17: with meta.idempotency_key present and malformed or different from
\* 'IDEM-' + process_id, the run fails and calls no delegate; with the key
\* absent and a well-formed process_id no step fails validation.
C17_IdempotencyKey ==
    \A i \in Inv :
        Finished(i) =>
            /\ (Has(orig[i].meta, "idempotency_key") /\ IdsError(i) # NoExc) =>
                  /\ pc[i] = "raised"
                  /\ \A c \in 1..Len(calls) : calls[c][1] # i
            /\ (~Has(orig[i].meta, "idempotency_key")
                /\ MatchesProcPattern(orig[i].top.process_id)) =>
                  \A k \in 1..Len(NewEntries(i)) :
                      NewEntries(i)[k].error_type # "ValueError"

\* --------------------------------------------------------------------- C18
\* the message of the exception the delegate raised in the latest failed call
DelegateMessage(i) ==
    LET ks == {k \in RecordsOf(i) : errorLog[k].layer = "orchestra_invoke"}
    IN  IF ks = {} THEN <<>>
        ELSE errorLog[CHOOSE k \in ks : \A j \in ks : j <= k].message

\* C18: when an attempt has failed in its delegate and the count of the
\* step's 'failed' entries is below max_retries, the step is retried exactly
\* if retry_on holds 'agent_failure', or holds 'timeout' and the message of
\* the delegate's exception contains 'timeout'.
C18_RetryEligibility ==
    \A i \in Inv :
        (/\ pc[i] \in {"backoff", "fail"}
         /\ err[i].type = "RuntimeError"
         /\ CurStep(i).retry_policy.max_retries > 0
         /\ Cardinality(EntriesOf(RunnerLog(i), CurStep(i).step_id, {"failed"}))
               < CurStep(i).retry_policy.max_retries)
        => (pc[i] = "backoff"
               <=> \/ "agent_failure" \in CurStep(i).retry_policy.retry_on
                   \/ /\ "timeout" \in CurStep(i).retry_policy.retry_on
                      /\ \E k \in 1..Len(DelegateMessage(i)) :
                            "timeout" \in KeywordsIn(DelegateMessage(i)[k]))

\* --------------------------------------------------------------------- C19
\* C19: when _execute_step reaches an on_success step it writes 'started' if
\* every depends_on step_id has a newest 'completed'/'failed' entry and that
\* entry is 'completed' (always, for an empty depends_on), and 'skipped'
\* otherwise; for an on_failure step it writes 'started' if some depends_on
\* step_id has 'failed' as its newest such entry, and 'skipped' otherwise.
C19_DependencyConditions ==
    [][\A i \in Inv :
          (/\ pc[i] = "loop" /\ running = i
           /\ idx[i] <= Len(plan[i].steps)
           /\ CurStep(i).when.condition \in {"on_success", "on_failure"})
          => LET st == CurStep(i)
                 deps == st.when.depends_on
                 log == RunnerLog(i)
                 runs == IF st.when.condition = "on_success"
                         THEN \A d \in deps : LastTerminal(log, d) = "completed"
                         ELSE \E d \in deps : LastTerminal(log, d) = "failed"
                 e == RunnerLog(i)'[Len(RunnerLog(i)')]
             IN  /\ Len(RunnerLog(i)') = Len(log) + 1
                 /\ e.step_id = st.step_id
                 /\ e.status = IF runs THEN "started" ELSE "skipped"]_vars

\* an on_success step that ran because its dependency, having failed first,
\* completed on retry
C19_Witness ==
    /\ pc[1] = "returned"
    /\ Len(plan[1].steps) = 2
    /\ plan[1].steps[2].when.condition = "on_success"
    /\ plan[1].steps[2].when.depends_on = {plan[1].steps[1].step_id}
    /\ StatusesOf(NewEntries(1), plan[1].steps[1].step_id, Len(NewEntries(1)))
          = <<"started", "failed", "started", "completed">>
    /\ StepOutcome(1, 2) = "completed"

\* --------------------------------------------------------------------- C20
\* the decision of the newest completed enforcer entry among the first n
\* entries of the log of invocation i: an entry the run wrote stands for the
\* decision its delegate returned, an older one carries its own
RECURSIVE LastEnforcerDecision(_, _)
LastEnforcerDecision(i, n) ==
    IF n = 0 THEN FALSE
    ELSE LET e == RunnerLog(i)[n]
         IN  IF e.agent_id = "middle-subagent-enforcer" /\ e.status = "completed"
             THEN IF n > Len(orig[i].log)
                  THEN PromotionDecisionOf(e.agent_id) = "True"
                  ELSE e.promotion_decision = "True"
             ELSE LastEnforcerDecision(i, n - 1)

\* C20: a step gated by 'enforcer.promotion_decision == true' is started when
\* the newest completed enforcer entry before it carries a true decision, in
\* particular the one of an enforcer step of the same plan, and is skipped
\* when there is no such entry or its decision is false.
C20_PromotionGate ==
    \A i \in Inv :
        Called(i) =>
            \A p \in 1..Len(plan[i].steps) :
                LET st == plan[i].steps[p]
                    own == EntriesOf(RunnerLog(i), st.step_id, {"started", "skipped"})
                            \ (1..Len(orig[i].log))
                IN  (/\ st.when.condition = "conditional"
                     /\ st.when.expression = PromotionExpr
                     /\ own # {})
                    => LET f == CHOOSE k \in own : \A j \in own : k <= j
                       IN  RunnerLog(i)[f].status = "started"
                              <=> LastEnforcerDecision(i, f - 1)

\* --------------------------------------------------------------------- C21
\* the steps of invocation i the loop has dealt with: those before the loop's
\* position, and the one at it once _execute_step has written an entry for it
Decided(i) ==
    {k \in 1..Len(plan[i].steps) :
        \/ k < idx[i]
        \/ k = idx[i] /\ pc[i] \in {"invoke", "delegating", "suspended", "except",
                                     "backoff", "fail", "raised"}}

MergedByKey(old, new, updates, key) ==
    LET part == IF Has(updates, key) THEN updates[key] ELSE EmptyDict
    IN  /\ DOMAIN new = DOMAIN old \cup DOMAIN part
        /\ \A x \in DOMAIN new :
              new[x] = IF x \in DOMAIN part THEN part[x] ELSE old[x]

\* field f of the new top-level dict is the update's value when the update
\* names it, and is as before (held or not) otherwise
ReplacedOrKept(old, new, updates, f) ==
    IF Has(updates, f) THEN Has(new, f) /\ new[f] = updates[f]
    ELSE /\ Has(new, f) <=> Has(old, f)
         /\ Has(old, f) => new[f] = old[f]

\* C22: when a step completes, the Runner's HDO has changed by one of the
\* hdo_updates its delegate may return: payload and meta are merged key by
\* key, stage, validated and promoted_to are replaced when the update names
\* them, and every other field (process_id, and which objects log, meta and
\* payload are) is unchanged; so no payload or meta key is ever lost.
C22_MergeRules ==
    [][\A i \in Inv :
          (pc[i] = "delegating" /\ pc'[i] = "loop") =>
              LET old == copyHdo[i]
                  new == copyHdo'[i]
              IN  \E updates \in DelegateUpdates(CurStep(i).agent_id) :
                     /\ MergedByKey(payloads[old.payload], payloads'[new.payload],
                                    updates, "payload")
                     /\ MergedByKey(metas[old.meta], metas'[new.meta], updates, "meta")
                     /\ \A f \in {"stage", "validated", "promoted_to"} :
                           ReplacedOrKept(old, new, updates, f)
                     /\ \A f \in {"process_id", "log", "meta", "payload"} :
                           new[f] = old[f]]_vars

\* a run that returned with the outputs of two steps next to what the
\* caller's payload and meta held: an overwritten key, two added ones, the
\* untouched ones
C22_Witness ==
    /\ pc[1] = "returned"
    /\ delegate = "external"
    /\ payloads[copyHdo[1].payload]
          = [client |-> "acme", mapped_data |-> "fresh", report |-> "r1"]
    /\ DOMAIN metas[copyHdo[1].meta]
          = {"idempotency_key", "altitude_trace", "plan_hash"}
    /\ metas[copyHdo[1].meta].plan_hash = "h2"

\* --------------------------------------------------------------------- C23
\* C23: the severity of a record follows the first rule that matches: a
\* critical keyword in the lowercased message gives 'critical'; else a high
\* keyword gives 'high'; else the types ValueError, KeyError, AttributeError
\* give 'medium'; else Warning, UserWarning give 'low'; else 'high'.  So a
\* message with a critical and a high keyword is critical, a ValueError
\* about a timeout is high, and only a Warning or UserWarning is ever low.
C23_SeverityFirstMatch ==
    \A k \in 1..Len(sinkRecords) :
        LET r == sinkRecords[k]
            kws == UNION {KeywordsIn(r.message[j]) : j \in 1..Len(r.message)}
            crit == kws \cap CriticalKeywords # {}
            high == kws \cap HighKeywords # {}
        IN  /\ crit => r.severity = "critical"
            /\ (~crit /\ high) => r.severity = "high"
            /\ (~crit /\ ~high) =>
                  r.severity = (CASE r.error_type \in {"ValueError", "KeyError",
                                                        "AttributeError"} -> "medium"
                                  [] r.error_type \in {"Warning", "UserWarning"} -> "low"
                                  [] OTHER -> "high")
            /\ r.severity = "low" => r.error_type \in {"Warning", "UserWarning"}

\* the record of a ValueError whose message has a critical and a high keyword
C23_Witness ==
    /\ Len(sinkRecords) = 1
    /\ sinkRecords[1].error_type = "ValueError"
    /\ sinkRecords[1].message = <<"database connection lost after timeout">>
    /\ sinkRecords[1].severity = "critical"

\* --------------------------------------------------------------------- C24
\* two HDOs that agree on everything but payload values of equal serialized
\* size, top-level fields off the allow-list and meta keys off the allow-list
DifferOnlyInHidden(a, b) ==
    /\ Restrict(a, SafeTopKeys) = Restrict(b, SafeTopKeys)
    /\ Has(a, "meta") <=> Has(b, "meta")
    /\ Has(a, "meta") => Restrict(a.meta, SafeMetaKeys) = Restrict(b.meta, SafeMetaKeys)
    /\ Has(a, "log") <=> Has(b, "log")
    /\ Has(a, "log") => a.log = b.log
    /\ Has(a, "payload") <=> Has(b, "payload")
    /\ Has(a, "payload") =>
          /\ Len(a.payload) = Len(b.payload)
          /\ \A k \in 1..Len(a.payload) : a.payload[k][1] = b.payload[k][1]
          /\ PayloadSize(a.payload) = PayloadSize(b.payload)

\* C24: the hdo_snapshot of a record holds the allow-listed top-level fields
\* of the HDO and nothing else of its top level, the allow-listed keys of its
\* meta, the last min(10, len(log)) log entries in their order, and of the
\* payload the key names and the size only; an HDO that differs from it only
\* in payload values of equal size or off the allow-lists has the same snapshot.
C24_SnapshotRedaction ==
    \A k \in 1..Len(sinkRecords) :
        LET snap == sinkRecords[k].hdo_snapshot
            h == sinkHdo
        IN  /\ DOMAIN snap \subseteq SafeTopKeys \cup {"meta", "log", "payload_summary"}
            /\ \A f \in SafeTopKeys :
                  /\ Has(snap, f) <=> Has(h, f)
                  /\ Has(h, f) => snap[f] = h[f]
            /\ Has(snap, "meta") <=> Has(h, "meta")
            /\ Has(h, "meta") =>
                  /\ DOMAIN snap.meta = DOMAIN h.meta \cap SafeMetaKeys
                  /\ \A f \in DOMAIN snap.meta : snap.meta[f] = h.meta[f]
            /\ Has(snap, "log") <=> Has(h, "log")
            /\ Has(h, "log") =>
                  LET n == Len(h.log)
                      m == IF n < 10 THEN n ELSE 10
                  IN  /\ Len(snap.log) = m
                      /\ \A j \in 1..m : snap.log[j] = h.log[n - m + j]
            /\ Has(snap, "payload_summary") <=> Has(h, "payload")
            /\ Has(h, "payload") =>
                  /\ DOMAIN snap.payload_summary = {"keys", "size"}
                  /\ Len(snap.payload_summary.keys) = Len(h.payload)
                  /\ \A j \in 1..Len(h.payload) :
                        snap.payload_summary.keys[j] = h.payload[j][1]
                  /\ snap.payload_summary.size = PayloadSize(h.payload)
            /\ \A other \in SinkHdos :
                  DifferOnlyInHidden(h, other) => CreateHdoSnapshot(other) = snap

\* the snapshot of an HDO with more log entries than are kept, a payload of
\* two values, a meta key and a top-level field off the allow-lists, which
\* another HDO with other values in these places shares
C24_Witness ==
    /\ Len(sinkRecords) = 1
    /\ Has(sinkHdo, "log") /\ Len(sinkHdo.log) > SnapshotLogEntries
    /\ sinkRecords[1].hdo_snapshot.log[1].timestamp = Len(sinkHdo.log) - 9
    /\ Has(sinkHdo, "payload") /\ Len(sinkHdo.payload) = 2
    /\ Has(sinkHdo, "session_secret")
    /\ Has(sinkHdo, "meta") /\ Has(sinkHdo.meta, "api_token")
    /\ \E other \in SinkHdos :
          /\ DifferOnlyInHidden(sinkHdo, other)
          /\ other.payload # sinkHdo.payload
          /\ Has(other, "session_secret")
          /\ other.session_secret # sinkHdo.session_secret
          /\ other.meta # sinkHdo.meta

\* --------------------------------------------------------------------- C25
\* the events of one execution_id, as positions in the event stream
EventsOf(x, types) ==
    {k \in 1..Len(events) :
        events[k].execution_id = x /\ events[k].event_type \in types}

\* what the event stream holds for the executions registered so far
TelemetryLifecycle ==
    /\ \A x \in 1..(nextExec - 1) :
          LET started == EventsOf(x, {"orchestration_started"})
              completed == EventsOf(x, {"orchestration_completed"})
              failed == EventsOf(x, {"orchestration_failed"})
          IN  /\ Cardinality(started) = 1
              /\ \A k \in started, j \in completed \cup failed : k < j
              /\ IF \E c \in active : c.execution_id = x
                 THEN completed \cup failed = {}
                 ELSE Cardinality(completed \cup failed) = 1
              /\ failed # {} =>
                    /\ completed = {}
                    /\ \A k \in started : events[k].posted
    /\ \A k \in 1..Len(events) :
          /\ events[k].execution_id \in 1..(nextExec - 1)
          /\ \E p \in 1..Len(plan[events[k].inv].steps) :
                plan[events[k].inv].steps[p].step_id = events[k].step_id
    /\ \A i \in Inv :
          \A p \in 1..Len(plan[i].steps) :
             (\E k \in 1..Len(events) :
                 events[k].inv = i /\ events[k].step_id = plan[i].steps[p].step_id)
             => /\ InvokeError(plan[i].steps[p], copyHdo[i], metas) = NoExc
                /\ EntriesOf(NewEntries(i), plan[i].steps[p].step_id, {"started"}) # {}

Attempts(i, k) ==
    Cardinality(EntriesOf(NewEntries(i), plan[i].steps[k].step_id, {"started"}))

AttemptsBounded ==
    \A i \in Inv :
        Called(i) =>
            \A k \in 1..Len(plan[i].steps) :
                LET n == plan[i].steps[k].retry_policy.max_retries
                IN  Attempts(i, k) <= (IF n > 1 THEN n ELSE 1)

\* C26: when every delegate call returns or raises, an invocation that was
\* made eventually returns or raises, and at no time has a step been
\* attempted more than max(1, max_retries) times in the run.
C26_Termination ==
    /\ []AttemptsBounded
    /\ \A i \in Inv : (pc[i] = "call") ~> Finished(i)

\* a run that ended after it had used every attempt of a step that may be
\* retried more than once
C26_Witness ==
    /\ pc[1] = "raised"
    /\ \E k \in 1..Len(plan[1].steps) :
          /\ plan[1].steps[k].retry_policy.max_retries >= 2
          /\ Attempts(1, k) = plan[1].steps[k].retry_policy.max_retries

\* --------------------------------------------------------------------- C27
\* the caller's log holds no entry of a step
CleanLog(i) == \A k \in 1..Len(orig[i].log) : orig[i].log[k].step_id = Absent

\* C27: in a run on an HDO whose log holds no step entries, every step with
\* condition 'on_failure' that the loop has dealt with was skipped and never
\* started.
C27_OnFailureNeverRuns ==
    \A i \in Inv :
        (Called(i) /\ CleanLog(i)) =>
            \A k \in Decided(i) :
                plan[i].steps[k].when.condition = "on_failure" =>
                    /\ EntriesOf(NewEntries(i), plan[i].steps[k].step_id, {"started"}) = {}
                    /\ EntriesOf(NewEntries(i), plan[i].steps[k].step_id, {"skipped"}) # {}

\* a run in which a step failed and completed on its retry, and the
\* 'on_failure' step that depends on it was skipped
C27_Witness ==
    /\ pc[1] = "returned" /\ CleanLog(1)
    /\ \E a, b \in Decided(1) :
          /\ plan[1].steps[b].when.condition = "on_failure"
          /\ plan[1].steps[a].step_id \in plan[1].steps[b].when.depends_on
          /\ EntriesOf(NewEntries(1), plan[1].steps[a].step_id, {"failed"}) # {}
          /\ EntriesOf(NewEntries(1), plan[1].steps[a].step_id, {"completed"}) # {}
          /\ EntriesOf(NewEntries(1), plan[1].steps[b].step_id, {"skipped"}) # {}

\* --------------------------------------------------------------------- C28
\* 'failed' entries of the step the caller's log came with, and those the
\* run has recorded
PriorFailures(i, step_id) == Cardinality(EntriesOf(orig[i].log, step_id, {"failed"}))

RunFailures(i, step_id) == Cardinality(EntriesOf(NewEntries(i), step_id, {"failed"}))

\* C28: a failed attempt is retried only while the 'failed' entries of the
\* step in the caller's log plus those recorded in this run, the new one
\* included, number less than max_retries; and when the policy retries on
\* 'agent_failure', reaching max_retries in that sum is the only reason the
\* step is not retried.
C28_RetryBudgetSpansRuns ==
    [][\A i \in Inv :
          pc[i] = "except" =>
              LET st == CurStep(i)
                  spent == PriorFailures(i, st.step_id) + RunFailures(i, st.step_id)'
              IN  /\ pc'[i] = "backoff" => spent < st.retry_policy.max_retries
                  /\ (pc'[i] = "fail" /\ "agent_failure" \in st.retry_policy.retry_on)
                        => spent >= st.retry_policy.max_retries]_vars

\* a run that raised after one attempt of a step that may be retried,
\* because the caller's log already held a failure of the step
C28_Witness ==
    /\ pc[1] = "raised"
    /\ CurStep(1).retry_policy.max_retries = 2
    /\ "agent_failure" \in CurStep(1).retry_policy.retry_on
    /\ PriorFailures(1, CurStep(1).step_id) = 1
    /\ RunFailures(1, CurStep(1).step_id) = 1

\* --------------------------------------------------------------------- C29
\* a field of a dict, as a sequence of no or one value
Field(d, f) == IF Has(d, f) THEN <<d[f]>> ELSE <<>>

\* payload, meta, stage, validated and promoted_to of the HDO invocation i
\* works on
Content(i) ==
    [payload |-> IF Has(copyHdo[i], "payload") THEN <<payloads[copyHdo[i].payload]>>
                 ELSE <<>>,
     meta |-> metas[copyHdo[i].meta],
     stage |-> Field(copyHdo[i], "stage"),
     validated |-> Field(copyHdo[i], "validated"),
     promoted_to |-> Field(copyHdo[i], "promoted_to")]

\* C29: from the start of the loop to its end, every step of a run other
\* than the completion of an attempt whose delegate returned leaves payload,
\* meta, stage, validated and promoted_to of the Runner's HDO as they are;
\* such a step adds nothing to the log or one 'started', 'failed' or
\* 'skipped' entry of the current step, and with the entry sets
\* timestamp_last_touched to a later time.
C29_FailedAndSkippedFrame ==
    [][\A i \in Inv :
          (/\ pc[i] \in {"loop", "invoke", "delegating", "suspended", "except", "backoff"}
           /\ ~(pc[i] = "delegating" /\ pc'[i] = "loop")
           /\ pc'[i] # "returned")
          => /\ Content(i)' = Content(i)
             /\ \/ /\ RunnerLog(i)' = RunnerLog(i)
                    /\ copyHdo'[i] = copyHdo[i]
                \/ \E status \in {"started", "failed", "skipped"} :
                      /\ Len(RunnerLog(i)') = Len(RunnerLog(i)) + 1
                      /\ IsPrefix(RunnerLog(i), RunnerLog(i)')
                      /\ RunnerLog(i)'[Len(RunnerLog(i)')].status = status
                      /\ RunnerLog(i)'[Len(RunnerLog(i)')].step_id = CurStep(i).step_id
                      /\ copyHdo'[i].timestamp_last_touched
                            > copyHdo[i].timestamp_last_touched]_vars

\* a run about to raise: its first step completed and changed the payload,
\* its second step failed, and the HDO still holds what the first step left
C29_Witness ==
    /\ pc[1] = "fail" /\ idx[1] = 2
    /\ EntriesOf(NewEntries(1), plan[1].steps[2].step_id, {"failed"}) # {}
    /\ plan[1].steps[1].agent_id = "input-validator"
    /\ plan[1].steps[2].agent_id = "overall-orchestrator"
    /\ Content(1).validated = <<TRUE>>
    /\ Content(1).payload = <<Update(InitialPayload, [validation_results |-> "passed"])>>

\* ---------------------------------------------------------------------- C30
\* get_orchestration_stats() on the registry act
GetOrchestrationStats(act) ==
    [active_count |-> Cardinality(act),
     active_agents |-> {c.agent_id : c \in act}]

\* the execution_ids whose orchestra_invoke call has returned or raised
Ended ==
    {events[k].execution_id :
        k \in {n \in 1..Len(events) :
                  events[n].event_type \in {"orchestration_completed",
                                            "orchestration_failed"}}}

RegistryMatchesCalls ==
    /\ \A i \in Inv :
          /\ Pending(i) # {} <=> pc[i] \in {"delegating", "suspended"}
          /\ Cardinality(Pending(i)) <= 1
    /\ \A c \in active :
          /\ c.execution_id < nextExec
          /\ c.execution_id \notin Ended
          /\ EventsOf(c.execution_id, {"orchestration_started"}) # {}
    /\ (\A i \in Inv : pc[i] \in {"idle", "returned", "raised"})
          => /\ active = {}
             /\ GetOrchestrationStats(active).active_count = 0

\* _invoke_step or the validation of orchestra_invoke raised: the call is
\* over without an error record and without an event
Rejected(i) ==
    /\ pc[i] = "invoke" /\ pc'[i] = "except"
    /\ errorLog' = errorLog

\* C30: _active_orchestrations holds the execution context of a call to
\* orchestra_invoke exactly while that call is past its registration and has
\* neither returned nor raised, a call rejected by validation registers
\* nothing, and when no invocation is in flight any more the registry is
\* empty and get_orchestration_stats reports active_count 0.
C30_RegistryLifecycle ==
    /\ []RegistryMatchesCalls
    /\ [][\A i \in Inv : Rejected(i) => /\ active' = active
                                         /\ nextExec' = nextExec
                                         /\ events' = events]_vars

\* both callers' orchestra_invoke calls were registered at the same time, one
\* has returned and the other raised, and both invocations are over
C30_Witness ==
    /\ pc[1] = "raised" /\ pc[2] = "returned"
    /\ Len(events) >= 4
    /\ events[1].event_type = "orchestration_started"
    /\ events[2].event_type = "orchestration_started"
    /\ events[1].inv # events[2].inv
    /\ \E k \in 3..Len(events) : events[k].event_type = "orchestration_failed"
    /\ \E k \in 3..Len(events) : events[k].event_type = "orchestration_completed"
    /\ active = {}
    /\ GetOrchestrationStats(active).active_count = 0

====
